---- MODULE Spec2Model ----
(***************************************************************************)
(* Model of the price-retrieval layer of trading-educativo:                *)
(*   - the in-memory TTL cache        (app/services/yahoo_finance_cache.py)*)
(*   - the Yahoo Finance adapter      (app/services/yahoo_finance_service) *)
(*   - the Binance adapter            (app/services/bitcoin_price_service) *)
(*   - the unified facade             (app/services/unified_price_service) *)
(*   - the fallback payload builders  (yahoo_finance_fallback,             *)
(*                                     crypto_fallback)                    *)
(*   - the GET /api/analysis handler  (app/api/analysis.py)                *)
(*                                                                         *)
(* Prices are integers (hundredths of a currency unit), so float() of a    *)
(* well-formed number and round(x, 2) keep the value.  Time is in seconds. *)
(* An optional value (Python None / a value) is <<>> / <<v>>.              *)
(***************************************************************************)
EXTENDS Integers, Sequences, FiniteSets, TLC

\* ---------------------------------------------------------------- bounds
MaxTicks == 1
MaxRequests == 2
MaxOps == 2

None == <<>>
Some(v) == <<v>>

\* ------------------------------------------------------- strings and case
\* The strings the model draws request arguments from.  cedears requests take
\* the branches of stocks requests everywhere, so one equity market is drawn.
Markets == {"crypto", "stocks", "Stocks", "forex"}
Symbols == {"aapl"}
Timeframes == {"1d", "1D", "1M", "1m"}
Limits == {0, 2}

\* str.lower() and str.upper() on the strings above (digits, '.' unchanged).
LowerTable ==
    ("CRYPTO" :> "crypto") @@ ("Stocks" :> "stocks") @@ ("AAPL" :> "aapl") @@
    ("DOGEUSDT" :> "dogeusdt") @@ ("1H" :> "1h") @@ ("1M" :> "1m") @@
    ("1D" :> "1d") @@ ("STOCKS" :> "stocks") @@ ("4H" :> "4h") @@ ("5M" :> "5m")
UpperTable ==
    ("crypto" :> "CRYPTO") @@ ("stocks" :> "STOCKS") @@ ("cedears" :> "CEDEARS") @@
    ("forex" :> "FOREX") @@ ("Stocks" :> "STOCKS") @@ ("aapl" :> "AAPL") @@
    ("dogeusdt" :> "DOGEUSDT") @@ ("1h" :> "1H") @@ ("1m" :> "1M") @@
    ("1d" :> "1D") @@ ("5m" :> "5M") @@ ("4h" :> "4H")
lower(s) == IF s \in DOMAIN LowerTable THEN LowerTable[s] ELSE s
upper(s) == IF s \in DOMAIN UpperTable THEN UpperTable[s] ELSE s

max(a, b) == IF a >= b THEN a ELSE b

\* ------------------------------------------------------------ TTL cache
\* yahoo_finance_cache.py: CACHE_TTL and DEFAULT_CACHE_DURATION_SECONDS
CACHE_TTL == ("1d" :> 1800) @@ ("1h" :> 600) @@ ("4h" :> 900)
DEFAULT_CACHE_DURATION_SECONDS == 300

\* get_cache_duration looking the timeframe up as passed, without lower().
get_cache_duration_sin_lower(timeframe) ==
    IF timeframe \in DOMAIN CACHE_TTL
    THEN CACHE_TTL[timeframe]
    ELSE DEFAULT_CACHE_DURATION_SECONDS

get_cache_duration(timeframe) ==
    IF lower(timeframe) \in DOMAIN CACHE_TTL
    THEN CACHE_TTL[lower(timeframe)]
    ELSE DEFAULT_CACHE_DURATION_SECONDS

\* _make_cache_key that leaves the symbol as passed.
_make_cache_key_sin_upper(market, symbol, timeframe) ==
    <<lower(market), symbol, lower(timeframe)>>

_make_cache_key(market, symbol, timeframe) ==
    <<lower(market), upper(symbol), lower(timeframe)>>

\* A cache is a function from the keys present to entries
\* [data, timestamp, expires_at].
Remove(c, key) == [k \in (DOMAIN c) \ {key} |-> c[k]]

\* get_from_cache with the age test made against the write time.
get_from_cache_timestamp(c, t, market, symbol, timeframe) ==
    LET key == _make_cache_key(market, symbol, timeframe) IN
    IF key \notin DOMAIN c
    THEN [ret |-> None, cache |-> c]
    ELSE IF t > c[key].timestamp
         THEN [ret |-> None, cache |-> Remove(c, key)]
         ELSE [ret |-> Some(c[key].data), cache |-> c]

\* get_from_cache that takes an entry for expired at its expiry instant.
get_from_cache_mayor_igual(c, t, market, symbol, timeframe) ==
    LET key == _make_cache_key(market, symbol, timeframe) IN
    IF key \notin DOMAIN c
    THEN [ret |-> None, cache |-> c]
    ELSE IF t >= c[key].expires_at
         THEN [ret |-> None, cache |-> Remove(c, key)]
         ELSE [ret |-> Some(c[key].data), cache |-> c]

\* get_from_cache: the value returned and the cache it leaves behind.
\* An expired entry is deleted (del _cache[key]) before None is returned.
get_from_cache(c, t, market, symbol, timeframe) ==
    LET key == _make_cache_key(market, symbol, timeframe) IN
    IF key \notin DOMAIN c
    THEN [ret |-> None, cache |-> c]
    ELSE IF t > c[key].expires_at
         THEN [ret |-> None, cache |-> Remove(c, key)]
         ELSE [ret |-> Some(c[key].data), cache |-> c]

\* save_to_cache that overwrites an entry's list in place, from its second
\* candle on, under the new times.
save_to_cache_mezcla(c, t, market, symbol, timeframe, data) ==
    LET key == _make_cache_key(market, symbol, timeframe)
        duration == get_cache_duration(timeframe)
        mezcla == IF key \in DOMAIN c /\ c[key].data # <<>> /\ data # <<>>
                  THEN <<c[key].data[1]>> \o Tail(data) ELSE data
        entry == [data |-> mezcla, timestamp |-> t, expires_at |-> t + duration]
    IN  [k \in (DOMAIN c) \cup {key} |-> IF k = key THEN entry ELSE c[k]]

\* save_to_cache that keeps the creation time of an entry it overwrites.
save_to_cache_conserva_timestamp(c, t, market, symbol, timeframe, data) ==
    LET key == _make_cache_key(market, symbol, timeframe)
        duration == get_cache_duration(timeframe)
        creado == IF key \in DOMAIN c THEN c[key].timestamp ELSE t
        entry == [data |-> data, timestamp |-> creado, expires_at |-> t + duration]
    IN  [k \in (DOMAIN c) \cup {key} |-> IF k = key THEN entry ELSE c[k]]

\* save_to_cache storing under the arguments as passed, not normalised.
save_to_cache_clave_cruda(c, t, market, symbol, timeframe, data) ==
    LET key == <<market, symbol, timeframe>>
        duration == get_cache_duration(timeframe)
        entry == [data |-> data, timestamp |-> t, expires_at |-> t + duration]
    IN  [k \in (DOMAIN c) \cup {key} |-> IF k = key THEN entry ELSE c[k]]

\* save_to_cache: the cache after storing data under the key at time t.
save_to_cache(c, t, market, symbol, timeframe, data) ==
    LET key == _make_cache_key(market, symbol, timeframe)
        duration == get_cache_duration(timeframe)
        entry == [data |-> data, timestamp |-> t, expires_at |-> t + duration]
    IN  [k \in (DOMAIN c) \cup {key} |-> IF k = key THEN entry ELSE c[k]]

\* get_last_cache: the entry's data whatever its age, None without entry.
get_last_cache(c, market, symbol, timeframe) ==
    LET key == _make_cache_key(market, symbol, timeframe) IN
    IF key \notin DOMAIN c THEN None ELSE Some(c[key].data)

\* clear_cache: filters are optional (None or Some(string)); a filter that
\* is None or the empty string is not applied ("if market and ...").
\* Returns the number of entries removed and the cache left.
Truthy(opt) == opt # None /\ opt[1] # ""
clear_cache(c, market, symbol, timeframe) ==
    IF market = None /\ symbol = None /\ timeframe = None
    THEN [ret |-> Cardinality(DOMAIN c), cache |-> [k \in {} |-> None]]
    ELSE LET should_remove(key) ==
                 /\ ~(Truthy(market) /\ key[1] # lower(market[1]))
                 /\ ~(Truthy(symbol) /\ key[2] # upper(symbol[1]))
                 /\ ~(Truthy(timeframe) /\ key[3] # lower(timeframe[1]))
             keys_to_remove == {key \in DOMAIN c : should_remove(key)}
         IN  [ret |-> Cardinality(keys_to_remove),
              cache |-> [k \in (DOMAIN c) \ keys_to_remove |-> c[k]]]

\* -------------------------------------------------- results of a retrieval
\* What a call of obtener_velas (or of an adapter) ends in: a candle list
\* (kind "velas") or a raised exception, named by its class.  source tells
\* where returned candles came from; fb holds the attributes of a raised
\* YahooFinanceFallback; detail tells which check raised a ValueError.
NoFb == [market |-> "", symbol |-> "", timeframe |-> ""]
Velas(velas, source) ==
    [kind |-> "velas", velas |-> velas, source |-> source, fb |-> NoFb, detail |-> ""]
Raise(kind, detail) ==
    [kind |-> kind, velas |-> <<>>, source |-> "none", fb |-> NoFb, detail |-> detail]
YahooFinanceFallback(market, symbol, timeframe) ==
    [kind |-> "YahooFinanceFallback", velas |-> <<>>, source |-> "none",
     fb |-> [market |-> market, symbol |-> symbol, timeframe |-> timeframe],
     detail |-> ""]

\* cached_data[:limite] if limite < len(cached_data) else cached_data
Recortar(data, limite) ==
    IF limite < Len(data) THEN SubSeq(data, 1, limite) ELSE data

\* ------------------------------------------------ Yahoo Finance adapter
\* A row of the provider's parallel arrays at one index; nulls names the
\* arrays that hold null there.
YRow(o, h, l, c, v, nulls) ==
    [open |-> o, high |-> h, low |-> l, close |-> c, volume |-> v, nulls |-> nulls]
YRowA == YRow(100, 110, 90, 105, 1000, {})
YRowB == YRow(105, 120, 100, 115, 0, {"volume"})
YRowC == YRow(115, 118, 112, 0, 700, {"close"})
YRowD == YRow(140, 155, 135, 150, 900, {})
\* A row whose high lies below its open, close and low.
YRowE == YRow(120, 110, 115, 118, 800, {})

\* What the HTTP call to Yahoo can end in.
YahooOk(has_result, has_quote, rows) ==
    [status |-> "ok", has_result |-> has_result, has_quote |-> has_quote, rows |-> rows]
YahooFail(status) ==
    [status |-> status, has_result |-> FALSE, has_quote |-> FALSE, rows |-> <<>>]
YahooResponses ==
    { YahooOk(TRUE, TRUE, <<YRowA, YRowB, YRowD>>),
      YahooOk(TRUE, TRUE, <<YRowE, YRowC>>),
      YahooOk(TRUE, TRUE, <<YRowC>>),
      YahooOk(TRUE, FALSE, <<>>),
      YahooOk(FALSE, FALSE, <<>>),
      YahooFail("timeout"), YahooFail("http_error"), YahooFail("error") }

timeframe_mapping ==
    ("1h" :> "1h") @@ ("4h" :> "4h") @@ ("1d" :> "1d") @@ ("1w" :> "1wk") @@
    ("1M" :> "1mo")

\* Rows start_index .. data_count-1 (0-based) with open, high, low and
\* close present become candles; a null volume becomes 0.
RECURSIVE ExtraerVelas(_, _)
ExtraerVelas(rows, i) ==
    IF i > Len(rows) THEN <<>>
    ELSE LET r == rows[i]
             vela == [open |-> r.open, high |-> r.high, low |-> r.low,
                      close |-> r.close,
                      volume |-> IF "volume" \in r.nulls THEN 0 ELSE r.volume]
         IN  IF {"open", "high", "low", "close"} \cap r.nulls = {}
             THEN <<vela>> \o ExtraerVelas(rows, i + 1)
             ELSE ExtraerVelas(rows, i + 1)
\* velas_yahoo without the window of the last limite rows.
velas_yahoo_sin_ventana(rows, limite) == ExtraerVelas(rows, 1)

velas_yahoo(rows, limite) ==
    LET data_count == Len(rows)
        start_index == max(0, data_count - limite)
    IN  ExtraerVelas(rows, start_index + 1)

\* obtener_velas_yahoo_finance that issues the network call whatever the
\* fresh-cache check returned.
yahoo_inicio_sin_cache(c, t, symbol, timeframe, limite, market) ==
    LET g == get_from_cache(c, t, market, symbol, timeframe) IN
    IF timeframe \notin DOMAIN timeframe_mapping
    THEN [pending |-> FALSE, result |-> Raise("ValueError", "timeframe"),
          cache |-> g.cache]
    ELSE [pending |-> TRUE, result |-> Raise("pending", ""), cache |-> g.cache]

\* obtener_velas_yahoo_finance up to the network call: the fresh-cache
\* check and the timeframe check.  pending tells that the call is issued.
yahoo_inicio(c, t, symbol, timeframe, limite, market) ==
    LET g == get_from_cache(c, t, market, symbol, timeframe) IN
    IF g.ret # None
    THEN [pending |-> FALSE, result |-> Velas(Recortar(g.ret[1], limite), "cache"),
          cache |-> g.cache]
    ELSE IF timeframe \notin DOMAIN timeframe_mapping
         THEN [pending |-> FALSE, result |-> Raise("ValueError", "timeframe"),
               cache |-> g.cache]
         ELSE [pending |-> TRUE, result |-> Raise("pending", ""), cache |-> g.cache]

\* Except handlers that raise the fallback without looking at the cache.
yahoo_except_sin_cache(c, symbol, timeframe, limite, market) ==
    [result |-> YahooFinanceFallback(market, symbol, timeframe), cache |-> c]

\* The except handlers: get_last_cache, then the candles or the fallback.
yahoo_except(c, symbol, timeframe, limite, market) ==
    LET last_cache == get_last_cache(c, market, symbol, timeframe) IN
    IF last_cache # None
    THEN [result |-> Velas(Recortar(last_cache[1], limite), "last_cache"), cache |-> c]
    ELSE [result |-> YahooFinanceFallback(market, symbol, timeframe), cache |-> c]

\* obtener_velas_yahoo_finance without the "if not velas: raise" test.
yahoo_fin_sin_chequeo(c, t, symbol, timeframe, limite, market, resp) ==
    LET velas == velas_yahoo(resp.rows, limite) IN
    IF resp.status = "ok" /\ resp.has_result /\ resp.has_quote
    THEN [result |-> Velas(velas, "provider"),
          cache |-> save_to_cache(c, t, market, symbol, timeframe, velas)]
    ELSE yahoo_except(c, symbol, timeframe, limite, market)

\* obtener_velas_yahoo_finance from the provider's answer on.
yahoo_fin(c, t, symbol, timeframe, limite, market, resp) ==
    LET velas == velas_yahoo(resp.rows, limite) IN
    IF resp.status = "timeout"
    THEN yahoo_except(c, symbol, timeframe, limite, market)
    ELSE IF resp.status = "http_error"
    THEN yahoo_except(c, symbol, timeframe, limite, market)
    ELSE IF resp.status = "ok" /\ resp.has_result /\ resp.has_quote /\ velas # <<>>
    THEN [result |-> Velas(velas, "provider"),
          cache |-> save_to_cache(c, t, market, symbol, timeframe, velas)]
    ELSE yahoo_except(c, symbol, timeframe, limite, market)

\* ----------------------------------------------------- Binance adapter
TIMEFRAMES_PERMITIDOS ==
    {"1m", "3m", "5m", "15m", "30m", "1h", "2h", "4h", "6h", "8h", "12h",
     "1d", "3d", "1w", "1M"}
BINANCE_LIMITE_MAX == 1000

\* Binance sends every number as a string: digits is the number written,
\* ok tells whether float() can parse the string.
Str(n) == [digits |-> n, ok |-> TRUE]
Basura == [digits |-> 0, ok |-> FALSE]
BRow(o, h, l, c, v) == <<Str(0), o, h, l, c, v>>
BRowA == BRow(Str(200), Str(220), Str(190), Str(210), Str(50))
BRowB == BRow(Str(210), Str(230), Str(205), Str(225), Str(60))
BRowC == BRow(Str(225), Str(226), Str(215), Str(220), Str(70))
BRowX == BRow(Str(225), Basura, Str(215), Str(220), Str(70))
\* A row whose low lies above its open, high and close.
BRowE == BRow(Str(225), Str(226), Str(240), Str(220), Str(70))

BinanceResponses ==
    { [status |-> "ok", rows |-> <<BRowA, BRowB, BRowC>>],
      [status |-> "ok", rows |-> <<BRowA>>],
      [status |-> "ok", rows |-> <<BRowA, BRowX>>],
      [status |-> "ok", rows |-> <<BRowE>>],
      [status |-> "ok", rows |-> <<>>],
      [status |-> "timeout", rows |-> <<>>],
      [status |-> "http_error", rows |-> <<>>],
      [status |-> "error", rows |-> <<>>] }

float(s) == s.digits
convertir_vela_binance_a_formato(vela_binance) ==
    [open |-> float(vela_binance[2]), high |-> float(vela_binance[3]),
     low |-> float(vela_binance[4]), close |-> float(vela_binance[5]),
     volume |-> float(vela_binance[6])]
\* float() raises ValueError on a string that is not a number.
ConvierteBien(vela_binance) == \A i \in 2..6 : vela_binance[i].ok

\* obtener_velas_bitcoin up to the network call: None when the call is
\* issued, else the ValueError raised.
bitcoin_inicio(timeframe, limite) ==
    IF timeframe \notin TIMEFRAMES_PERMITIDOS
    THEN Some(Raise("ValueError", "timeframe"))
    ELSE IF limite < 1 \/ limite > BINANCE_LIMITE_MAX
         THEN Some(Raise("ValueError", "limite"))
         ELSE None

\* obtener_velas_bitcoin from the provider's answer on.
bitcoin_fin(resp) ==
    IF resp.status = "timeout" THEN Raise("Exception", "timeout")
    ELSE IF resp.status = "http_error" THEN Raise("Exception", "http")
    ELSE IF resp.status = "ok" /\ \A i \in 1..Len(resp.rows) : ConvierteBien(resp.rows[i])
    THEN Velas([i \in 1..Len(resp.rows) |-> convertir_vela_binance_a_formato(resp.rows[i])],
               "provider")
    ELSE Raise("Exception", "inesperado")

\* ------------------------------------------------------- unified facade
mercados_validos == {"crypto", "stocks", "cedears"}

\* The market check made on the argument as passed, without lower().
mercado_valido_sin_lower(market) == market \in mercados_validos
\* if market.lower() not in mercados_validos: raise ValueError
mercado_valido(market) == lower(market) \in mercados_validos

\* The try/except around obtener_velas_yahoo_finance in obtener_velas: a
\* YahooFinanceFallback is re-raised, any other exception becomes one.
envolver_yahoo(result, market_lower, symbol, timeframe) ==
    IF result.kind = "velas" THEN result
    ELSE IF result.kind = "YahooFinanceFallback" THEN result
    ELSE YahooFinanceFallback(market_lower, upper(symbol), timeframe)

\* obtener_velas up to the first network call.  etapa is "done" when the
\* call has ended (result tells how), else the provider it waits for.
\* traza lists the cache operations made.
obtener_velas_inicio(c, t, market, symbol, timeframe, limite) ==
    LET market_lower == lower(market) IN
    IF ~mercado_valido(market)
    THEN [etapa |-> "done", result |-> Raise("ValueError", "mercado"),
          cache |-> c, traza |-> <<>>]
    ELSE IF market_lower = "crypto"
    THEN LET b == bitcoin_inicio(timeframe, limite) IN
         IF b # None
         THEN [etapa |-> "done", result |-> b[1], cache |-> c, traza |-> <<>>]
         ELSE [etapa |-> "await_binance", result |-> Raise("pending", ""),
               cache |-> c, traza |-> <<"binance">>]
    ELSE LET y == yahoo_inicio(c, t, upper(symbol), timeframe, limite, market_lower) IN
         IF y.pending
         THEN [etapa |-> "await_yahoo", result |-> y.result, cache |-> y.cache,
               traza |-> <<"get_from_cache", "yahoo">>]
         ELSE [etapa |-> "done",
               result |-> envolver_yahoo(y.result, market_lower, symbol, timeframe),
               cache |-> y.cache, traza |-> <<"get_from_cache">>]

\* obtener_velas from Yahoo's answer on (market is stocks or cedears).
obtener_velas_fin_yahoo(c, t, market, symbol, timeframe, limite, resp) ==
    LET market_lower == lower(market)
        y == yahoo_fin(c, t, upper(symbol), timeframe, limite, market_lower, resp)
    IN  [result |-> envolver_yahoo(y.result, market_lower, symbol, timeframe),
         cache |-> y.cache,
         traza |-> IF y.result.source = "provider"
                   THEN <<"save_to_cache">> ELSE <<"get_last_cache">>]

\* obtener_velas from Binance's answer on (market is crypto).
obtener_velas_fin_binance(resp) == bitcoin_fin(resp)

\* --------------------------------------------------- fallback payloads
\* get_fallback_response_data with a reference price of 0 instead of None.
get_fallback_response_data_cero(c, market, symbol, timeframe) ==
    LET last_cache == get_last_cache(c, market, symbol, timeframe)
        precio_referencia ==
            IF last_cache # None /\ Len(last_cache[1]) > 0
            THEN Some(last_cache[1][Len(last_cache[1])].close)
            ELSE Some(0)
    IN  [status_code |-> "DATA_TEMPORARILY_UNAVAILABLE",
         message_code |-> "DATA_SOURCE_RATE_LIMIT",
         confidence |-> "LOW",
         precio_referencia |-> precio_referencia,
         cache_disponible |-> (last_cache # None),
         disclaimer_code |-> "DISCLAIMER"]

get_fallback_response_data(c, market, symbol, timeframe) ==
    LET last_cache == get_last_cache(c, market, symbol, timeframe)
        precio_referencia ==
            IF last_cache # None /\ Len(last_cache[1]) > 0
            THEN Some(last_cache[1][Len(last_cache[1])].close)
            ELSE None
    IN  [status_code |-> "DATA_TEMPORARILY_UNAVAILABLE",
         message_code |-> "DATA_SOURCE_RATE_LIMIT",
         confidence |-> "LOW",
         precio_referencia |-> precio_referencia,
         cache_disponible |-> (last_cache # None),
         disclaimer_code |-> "DISCLAIMER"]

\* get_crypto_fallback_response_data with status and message code swapped.
get_crypto_fallback_response_data_cambiado(symbol, timeframe) ==
    [status_code |-> "DATA_SOURCE_ERROR",
     message_code |-> "DATA_TEMPORARILY_UNAVAILABLE",
     confidence |-> "LOW",
     precio_referencia |-> None,
     disclaimer_code |-> "DISCLAIMER"]

get_crypto_fallback_response_data(symbol, timeframe) ==
    [status_code |-> "DATA_TEMPORARILY_UNAVAILABLE",
     message_code |-> "DATA_SOURCE_ERROR",
     confidence |-> "LOW",
     precio_referencia |-> None,
     disclaimer_code |-> "DISCLAIMER"]

\* ------------------------------------------------- GET /api/analysis
\* The pattern engine is outside the model: of its result only the number
\* of candles analysed and the disclaimer code are kept.
analizar_patrones(velas) ==
    [total_velas_analizadas |-> Len(velas), disclaimer_code |-> "DISCLAIMER"]

\* A response of the handler.  http is 200 for a returned
\* AnalisisUnificadoResponse and 500 for an exception that leaves the
\* handler.  precio_referencia is the fallback payload's reference price
\* (None when the response is not built from a fallback payload).
AnalisisUnificadoResponse(asset, market, timeframe, precio_actual, total, fd) ==
    [http |-> 200, asset |-> asset, market |-> market, timeframe |-> timeframe,
     precio_actual |-> precio_actual, total_velas_analizadas |-> total,
     disclaimer_code |-> fd.disclaimer_code, status_code |-> Some(fd.status_code),
     message_code |-> Some(fd.message_code), confidence |-> Some(fd.confidence),
     precio_referencia |-> fd.precio_referencia]
ErrorServidor(asset, market, timeframe) ==
    [http |-> 500, asset |-> asset, market |-> market, timeframe |-> timeframe,
     precio_actual |-> 0, total_velas_analizadas |-> 0,
     disclaimer_code |-> "", status_code |-> None,
     message_code |-> None, confidence |-> None, precio_referencia |-> None]

\* The response built from a Yahoo fallback payload.
RespuestaFallbackYahoo(c, market, symbol, timeframe, fm, fs, ft) ==
    LET fallback_data == get_fallback_response_data(c, fm, fs, ft)
        precio_referencia == fallback_data.precio_referencia
        precio_actual == IF precio_referencia # None THEN precio_referencia[1] ELSE 0
    IN  AnalisisUnificadoResponse(upper(symbol), lower(market), timeframe,
                                  precio_actual, 0, fallback_data)

\* The response built from a crypto fallback payload, in the handlers that
\* use precio_actual=0.0.
RespuestaFallbackCrypto(market, symbol, timeframe) ==
    LET fallback_data == get_crypto_fallback_response_data(upper(symbol), timeframe)
    IN  AnalisisUnificadoResponse(upper(symbol), lower(market), timeframe,
                                  0, 0, fallback_data)

\* The fallback chosen by market, as in the "not velas", ValueError and
\* Exception branches.
RespuestaFallbackPorMercado(c, market, symbol, timeframe) ==
    IF lower(market) \in {"stocks", "cedears"}
    THEN RespuestaFallbackYahoo(c, market, symbol, timeframe,
                                lower(market), upper(symbol), timeframe)
    ELSE RespuestaFallbackCrypto(market, symbol, timeframe)

\* An "except Exception" branch that lets the exception leave the handler.
RamaException_propaga(c, market, symbol, timeframe) ==
    ErrorServidor(upper(symbol), lower(market), timeframe)

\* The "except Exception" branch of analizar_activo.
RamaException(c, market, symbol, timeframe) ==
    RespuestaFallbackPorMercado(c, market, symbol, timeframe)

\* analizar_activo once obtener_velas has ended in outcome r.
analizar_activo(c, market, symbol, timeframe, r) ==
    IF r.kind = "velas"
    THEN IF Len(r.velas) = 0
         THEN RespuestaFallbackPorMercado(c, market, symbol, timeframe)
         ELSE LET resultado_analisis == analizar_patrones(r.velas)
                  ultima_vela == r.velas[Len(r.velas)]
              IN  [http |-> 200, asset |-> upper(symbol), market |-> lower(market),
                   timeframe |-> timeframe, precio_actual |-> ultima_vela.close,
                   total_velas_analizadas |-> Len(r.velas),
                   disclaimer_code |-> resultado_analisis.disclaimer_code,
                   status_code |-> None, message_code |-> None,
                   confidence |-> None, precio_referencia |-> None]
    ELSE IF r.kind = "CryptoDataFallback"
    THEN LET fallback_data == get_crypto_fallback_response_data(r.fb.symbol, r.fb.timeframe)
             precio_referencia == fallback_data.precio_referencia
             precio_actual == IF precio_referencia # None THEN precio_referencia[1] ELSE 0
         IN  AnalisisUnificadoResponse(upper(symbol), lower(market), timeframe,
                                       precio_actual, 0, fallback_data)
    ELSE IF r.kind = "YahooFinanceFallback"
    THEN RespuestaFallbackYahoo(c, market, symbol, timeframe,
                                r.fb.market, r.fb.symbol, r.fb.timeframe)
    ELSE IF r.kind = "ValueError"
    THEN RespuestaFallbackPorMercado(c, market, symbol, timeframe)
    ELSE IF r.kind = "HTTPException"
    THEN ErrorServidor(upper(symbol), lower(market), timeframe)
    ELSE RamaException(c, market, symbol, timeframe)

\* The Query(...) declarations of analizar_activo: requests that fail them
\* are answered by the framework and never reach the handler.
QueryValida(market, timeframe, limite) ==
    /\ market \in {"crypto", "stocks", "cedears"}
    /\ timeframe \in {"1h", "4h", "1d"}
    /\ limite >= 1 /\ limite <= 1000

\* ------------------------------------------------------------- the state
VARIABLES
    cache,      \* _cache: key -> [data, timestamp, expires_at]
    now,        \* datetime.now(), in seconds
    ticks,      \* number of clock advances made
    started,    \* number of requests started
    pc,         \* per request slot: "idle", "await_yahoo", "await_binance", "done"
    req,        \* per slot: the arguments of the call and what it has done
    res,        \* per slot: what obtener_velas ended in
    resp,       \* per slot: the response of analizar_activo
    lastOp,     \* the names of the cache operations made by the last step
    op,         \* the last direct call of a cache function: arguments, result
    heap        \* the list objects callers have built: reference -> content

vars == <<cache, now, ticks, started, pc, req, res, resp, lastOp, op, heap>>

Procs == {1}
TickSteps == {300, 1801}

NoReq ==
    [via |-> "", market |-> "", symbol |-> "", timeframe |-> "", limite |-> 0,
     entry0 |-> None, t0 |-> 0, entry1 |-> None, prov |-> None, traza |-> <<>>]
NoRes == Raise("none", "")
NoResp == [ErrorServidor("", "", "") EXCEPT !.http = 0]

Range(seq) == {seq[i] : i \in 1..Len(seq)}

\* No direct call of a cache function made yet.  n counts the calls made;
\* filtro holds the optional arguments of clear_cache.
NoOp ==
    [n |-> 0, name |-> "", market |-> "", symbol |-> "", timeframe |-> "",
     filtro |-> <<None, None, None>>, data |-> <<>>, ret |-> None]

EntryAt(c, market, symbol, timeframe) ==
    LET key == _make_cache_key(market, symbol, timeframe) IN
    IF key \in DOMAIN c THEN Some(c[key]) ELSE None

Init ==
    /\ cache = [k \in {} |-> None]
    /\ now = 0
    /\ ticks = 0
    /\ started = 0
    /\ pc = [p \in Procs |-> "idle"]
    /\ req = [p \in Procs |-> NoReq]
    /\ res = [p \in Procs |-> NoRes]
    /\ resp = [p \in Procs |-> NoResp]
    /\ lastOp = {}
    /\ op = NoOp
    /\ heap = <<>>

\* A call starts and runs up to its first network call, or to its end.
\* via "api": GET /api/analysis (analizar_activo calls obtener_velas);
\* via "fachada": any other caller of obtener_velas.
Iniciar(p, via, market, symbol, timeframe, limite) ==
    /\ pc[p] \in {"idle", "done"}
    /\ started < MaxRequests
    /\ via = "api" => QueryValida(market, timeframe, limite)
    /\ LET o == obtener_velas_inicio(cache, now, market, symbol, timeframe, limite)
           r == [via |-> via, market |-> market, symbol |-> symbol,
                 timeframe |-> timeframe, limite |-> limite,
                 entry0 |-> EntryAt(cache, market, symbol, timeframe),
                 t0 |-> now, entry1 |-> None, prov |-> None, traza |-> o.traza]
       IN  /\ cache' = o.cache
           /\ pc' = [pc EXCEPT ![p] = o.etapa]
           /\ req' = [req EXCEPT ![p] = r]
           /\ res' = [res EXCEPT ![p] = IF o.etapa = "done" THEN o.result ELSE NoRes]
           /\ resp' = [resp EXCEPT ![p] =
                         IF o.etapa = "done" /\ via = "api"
                         THEN analizar_activo(o.cache, market, symbol, timeframe, o.result)
                         ELSE NoResp]
           /\ lastOp' = Range(o.traza) \ {"yahoo", "binance"}
    /\ started' = started + 1
    /\ UNCHANGED <<now, ticks, op, heap>>

LlamarApi(p) ==
    \E market \in Markets, symbol \in Symbols, timeframe \in Timeframes, limite \in Limits :
        Iniciar(p, "api", market, symbol, timeframe, limite)

LlamarFachada(p) ==
    \E market \in Markets, symbol \in Symbols, timeframe \in Timeframes, limite \in Limits :
        Iniciar(p, "fachada", market, symbol, timeframe, limite)

\* Yahoo answers (or the call times out): the retrieval runs to its end.
ResponderYahoo(p) ==
    /\ pc[p] = "await_yahoo"
    /\ \E r \in YahooResponses :
         LET q == req[p]
             o == obtener_velas_fin_yahoo(cache, now, q.market, q.symbol,
                                          q.timeframe, q.limite, r)
         IN  /\ cache' = o.cache
             /\ res' = [res EXCEPT ![p] = o.result]
             /\ req' = [req EXCEPT ![p].traza = q.traza \o o.traza,
                                   ![p].entry1 = EntryAt(cache, q.market, q.symbol, q.timeframe),
                                   ![p].prov = Some(r)]
             /\ resp' = [resp EXCEPT ![p] =
                           IF q.via = "api"
                           THEN analizar_activo(o.cache, q.market, q.symbol, q.timeframe, o.result)
                           ELSE NoResp]
             /\ lastOp' = Range(o.traza)
    /\ pc' = [pc EXCEPT ![p] = "done"]
    /\ UNCHANGED <<now, ticks, started, op, heap>>

\* Binance answers (or the call times out): the retrieval runs to its end.
ResponderBinance(p) ==
    /\ pc[p] = "await_binance"
    /\ \E r \in BinanceResponses :
         LET q == req[p]
             o == obtener_velas_fin_binance(r)
         IN  /\ res' = [res EXCEPT ![p] = o]
             /\ req' = [req EXCEPT ![p].prov = Some(r),
                                   ![p].entry1 = EntryAt(cache, q.market, q.symbol, q.timeframe)]
             /\ resp' = [resp EXCEPT ![p] =
                           IF q.via = "api"
                           THEN analizar_activo(cache, q.market, q.symbol, q.timeframe, o)
                           ELSE NoResp]
    /\ pc' = [pc EXCEPT ![p] = "done"]
    /\ lastOp' = {}
    /\ UNCHANGED <<cache, now, ticks, started, op, heap>>

\* clear_cache is called with some filter.
LimpiarCache ==
    /\ cache # [k \in {} |-> None]
    /\ \E market \in {None, Some("")},
          symbol \in {None, Some("aapl")},
          timeframe \in {None, Some("1D")} :
         cache' = clear_cache(cache, market, symbol, timeframe).cache
    /\ lastOp' = {"clear_cache"}
    /\ UNCHANGED <<now, ticks, started, pc, req, res, resp, op, heap>>

\* Time passes.
Tick ==
    /\ ticks < MaxTicks
    /\ \E d \in TickSteps : now' = now + d
    /\ ticks' = ticks + 1
    /\ lastOp' = {}
    /\ UNCHANGED <<cache, started, pc, req, res, resp, op, heap>>

Next ==
    \/ \E p \in Procs : LlamarApi(p)
    \/ \E p \in Procs : LlamarFachada(p)
    \/ \E p \in Procs : ResponderYahoo(p)
    \/ \E p \in Procs : ResponderBinance(p)
    \/ LimpiarCache
    \/ Tick

Spec == Init /\ [][Next]_vars

TypeOK ==
    /\ now \in Nat
    /\ \A p \in Procs : pc[p] \in {"idle", "await_yahoo", "await_binance", "done"}

\* ------------------------------------------- the cache functions, called
\* directly.  The arguments come in any casing; candle lists are those a
\* retrieval could have produced.
MarketsCache == {"stocks", "Stocks"}
SymbolsCache == {"aapl", "AAPL"}
TimeframesCache == {"1d", "1D", "1h", "4h", "5m"}
VelasDirectas ==
    { <<[open |-> 100, high |-> 110, low |-> 90, close |-> 105, volume |-> 1000]>>,
      <<[open |-> 100, high |-> 110, low |-> 90, close |-> 105, volume |-> 1000],
        [open |-> 140, high |-> 155, low |-> 135, close |-> 150, volume |-> 900]>> }
FiltrosMarket == {None, Some(""), Some("STOCKS")}
FiltrosSymbol == {None, Some("aapl")}
FiltrosTimeframe == {None, Some("1D")}

OpHecha(name, market, symbol, timeframe, data, ret) ==
    [n |-> op.n + 1, name |-> name, market |-> market, symbol |-> symbol,
     timeframe |-> timeframe, filtro |-> <<None, None, None>>,
     data |-> data, ret |-> ret]

\* save_to_cache(market, symbol, timeframe, data)
Guardar(market, symbol, timeframe, data) ==
    /\ op.n < MaxOps
    /\ cache' = save_to_cache(cache, now, market, symbol, timeframe, data)
    /\ op' = OpHecha("save_to_cache", market, symbol, timeframe, data, None)
    /\ lastOp' = {"save_to_cache"}
    /\ UNCHANGED <<now, ticks, started, pc, req, res, resp, heap>>

\* get_from_cache(market, symbol, timeframe)
Leer(market, symbol, timeframe) ==
    /\ op.n < MaxOps
    /\ LET g == get_from_cache(cache, now, market, symbol, timeframe) IN
         /\ cache' = g.cache
         /\ op' = OpHecha("get_from_cache", market, symbol, timeframe, <<>>, g.ret)
    /\ lastOp' = {"get_from_cache"}
    /\ UNCHANGED <<now, ticks, started, pc, req, res, resp, heap>>

\* get_last_cache(market, symbol, timeframe)
LeerUltimo(market, symbol, timeframe) ==
    /\ op.n < MaxOps
    /\ op' = OpHecha("get_last_cache", market, symbol, timeframe, <<>>,
                     get_last_cache(cache, market, symbol, timeframe))
    /\ lastOp' = {"get_last_cache"}
    /\ UNCHANGED <<cache, now, ticks, started, pc, req, res, resp, heap>>

\* clear_cache(market, symbol, timeframe), each argument optional
Limpiar(market, symbol, timeframe) ==
    /\ op.n < MaxOps
    /\ LET r == clear_cache(cache, market, symbol, timeframe) IN
         /\ cache' = r.cache
         /\ op' = [OpHecha("clear_cache", "", "", "", <<>>, Some(r.ret))
                      EXCEPT !.filtro = <<market, symbol, timeframe>>]
    /\ lastOp' = {"clear_cache"}
    /\ UNCHANGED <<now, ticks, started, pc, req, res, resp, heap>>

LlamarSaveToCache ==
    \E market \in MarketsCache, symbol \in SymbolsCache,
       timeframe \in TimeframesCache, data \in VelasDirectas :
        Guardar(market, symbol, timeframe, data)
LlamarGetFromCache ==
    \E market \in MarketsCache, symbol \in SymbolsCache, timeframe \in TimeframesCache :
        Leer(market, symbol, timeframe)
LlamarGetLastCache ==
    \E market \in MarketsCache, symbol \in SymbolsCache, timeframe \in TimeframesCache :
        LeerUltimo(market, symbol, timeframe)
LlamarClearCache ==
    \E market \in FiltrosMarket, symbol \in FiltrosSymbol, timeframe \in FiltrosTimeframe :
        Limpiar(market, symbol, timeframe)

NextCache ==
    \/ LlamarSaveToCache
    \/ LlamarGetFromCache
    \/ LlamarGetLastCache
    \/ LlamarClearCache
    \/ Tick

SpecCache == Init /\ [][NextCache]_vars

\* ------------------------------------ crypto requests over a cache that
\* holds crypto candles.  No retrieval stores candles under the crypto
\* market, so they are put there by a call of save_to_cache.
LlamarSaveToCacheCrypto ==
    \E symbol \in SymbolsCache, timeframe \in {"1d", "1h"}, data \in VelasDirectas :
        Guardar("crypto", symbol, timeframe, data)
LlamarApiCrypto(p) ==
    \E symbol \in Symbols, timeframe \in {"1d", "1h"}, limite \in Limits :
        Iniciar(p, "api", "crypto", symbol, timeframe, limite)

NextCrypto ==
    \/ LlamarSaveToCacheCrypto
    \/ \E p \in Procs : LlamarApiCrypto(p)
    \/ \E p \in Procs : ResponderBinance(p)
    \/ Tick

SpecCrypto == Init /\ [][NextCrypto]_vars

\* ------------------------------------ two GET /api/analysis requests in
\* flight: each handler is a coroutine that yields at its provider call.
ProcsConc == {1, 2}
InitConc ==
    /\ cache = [k \in {} |-> None]
    /\ now = 0
    /\ ticks = 0
    /\ started = 0
    /\ pc = [p \in ProcsConc |-> "idle"]
    /\ req = [p \in ProcsConc |-> NoReq]
    /\ res = [p \in ProcsConc |-> NoRes]
    /\ resp = [p \in ProcsConc |-> NoResp]
    /\ lastOp = {}
    /\ op = NoOp
    /\ heap = <<>>

NextConc ==
    \/ \E p \in ProcsConc : LlamarApi(p)
    \/ \E p \in ProcsConc : ResponderYahoo(p)
    \/ \E p \in ProcsConc : ResponderBinance(p)
    \/ Tick

SpecConc == InitConc /\ [][NextConc]_vars

\* Callers of obtener_velas that ask for fewer candles than Yahoo has, or
\* for all of them: obtener_info_activo asks for one daily candle.
LimitesRecorte == {1, 3}
LlamarFachadaLimite(p) ==
    \E limite \in LimitesRecorte :
        Iniciar(p, "fachada", "stocks", "aapl", "1d", limite)

NextLimite ==
    \/ \E p \in Procs : LlamarFachadaLimite(p)
    \/ \E p \in Procs : ResponderYahoo(p)
    \/ Tick

SpecLimite == Init /\ [][NextLimite]_vars

\* The cache functions called with list objects.  A list is a reference
\* into heap; the cache keeps the reference it is given ("data": data) and
\* its reads hand back the reference they find (cached_entry["data"]).
TimeframesLista == {"1d", "1h"}
Contenido(h, r) == IF r = None THEN None ELSE Some(h[r[1]])

\* A caller builds a list of candles.
CrearLista ==
    /\ Len(heap) < MaxOps
    /\ \E data \in VelasDirectas : heap' = Append(heap, data)
    /\ lastOp' = {}
    /\ UNCHANGED <<cache, now, ticks, started, pc, req, res, resp, op>>

\* save_to_cache is called with a list the caller built.
GuardarLista ==
    \E timeframe \in TimeframesLista, ref \in DOMAIN heap :
        Guardar("stocks", "aapl", timeframe, ref)
\* get_from_cache: the caller gets the reference stored, or None.
LeerLista ==
    \E timeframe \in TimeframesLista : Leer("stocks", "aapl", timeframe)
\* get_last_cache: the caller gets the reference stored, or None.
LeerUltimaLista ==
    \E timeframe \in TimeframesLista : LeerUltimo("stocks", "aapl", timeframe)

\* A caller changes a list it holds: the one it passed to save_to_cache
\* or the one a read returned to it.  velas.pop() drops the last candle,
\* velas[-1]["close"] = 0 overwrites a price.
MutarLista ==
    /\ op.n < MaxOps
    /\ op.name \in {"save_to_cache", "get_from_cache", "get_last_cache"}
    /\ \E ref \in DOMAIN heap :
         /\ heap[ref] # <<>>
         /\ IF op.name = "save_to_cache" THEN ref = op.data ELSE op.ret = Some(ref)
         /\ \E velas \in { SubSeq(heap[ref], 1, Len(heap[ref]) - 1),
                            [heap[ref] EXCEPT ![Len(heap[ref])].close = 0] } :
               heap' = [heap EXCEPT ![ref] = velas]
         /\ op' = OpHecha("mutar", op.market, op.symbol, op.timeframe, ref, None)
    /\ lastOp' = {}
    /\ UNCHANGED <<cache, now, ticks, started, pc, req, res, resp>>

NextLista ==
    \/ CrearLista
    \/ GuardarLista
    \/ LeerLista
    \/ LeerUltimaLista
    \/ MutarLista
    \/ Tick

SpecLista == Init /\ [][NextLista]_vars

\* ===================================================================
\* Properties
\* ===================================================================
EsEquity(market) == lower(market) \in {"stocks", "cedears"}
EsCrypto(market) == lower(market) = "crypto"
Terminado(p) == pc[p] = "done"
Unavailable == Some("DATA_TEMPORARILY_UNAVAILABLE")

\* The step starts a call in slot p.
IniciadaPor(p) ==
    /\ started' = started + 1
    /\ \A q \in Procs \ {p} : pc'[q] = pc[q] /\ req'[q] = req[q]

\* Yahoo's answer holds at least one usable candle among the last limite.
YahooExito(r, limite) ==
    /\ r.status = "ok" /\ r.has_result /\ r.has_quote
    /\ \E i \in 1..Len(r.rows) :
         /\ i > Len(r.rows) - limite
         /\ r.rows[i].nulls \cap {"open", "high", "low", "close"} = {}
\* Binance's answer holds at least one candle and every row parses.
BinanceExito(r) ==
    /\ r.status = "ok" /\ r.rows # <<>>
    /\ \A i \in 1..Len(r.rows) : \A j \in 2..6 : r.rows[i][j].ok

\* The retrieval of slot p called Yahoo and the call failed.
YahooFallo(p) ==
    /\ Terminado(p) /\ EsEquity(req[p].market) /\ req[p].prov # None
    /\ ~YahooExito(req[p].prov[1], req[p].limite)
\* The retrieval of slot p called Binance and the call failed.
BinanceFallo(p) ==
    /\ Terminado(p) /\ EsCrypto(req[p].market) /\ req[p].prov # None
    /\ ~BinanceExito(req[p].prov[1])

\* A well-formed AnalisisUnificadoResponse for the request of slot p.
BienFormada(p) ==
    /\ resp[p].http = 200
    /\ resp[p].asset = upper(req[p].symbol)
    /\ resp[p].market = lower(req[p].market)
    /\ resp[p].timeframe = req[p].timeframe
    /\ resp[p].precio_actual \in Nat
    /\ resp[p].total_velas_analizadas \in Nat
    /\ resp[p].disclaimer_code = "DISCLAIMER"
    /\ resp[p].status_code \in {None, Unavailable}
    /\ resp[p].status_code = None <=> resp[p].total_velas_analizadas > 0

\* C1: every GET /api/analysis request with a valid market ends in a
\* well-formed AnalisisUnificadoResponse (HTTP 200), whatever the provider
\* did: timeout, HTTP error, unusable payload or any other exception.
C1_SiempreRespuestaValida ==
    \A p \in Procs : (Terminado(p) /\ req[p].via = "api") => BienFormada(p)
\* An API request whose provider call failed has been answered.
C1_Witness ==
    \E p \in Procs :
        /\ req[p].via = "api" /\ (YahooFallo(p) \/ BinanceFallo(p))
        /\ req[p].prov[1].status = "timeout"
        /\ resp[p].http = 200

\* C2: for a valid market, a retrieval whose provider call failed ends in
\* candles or in the market's fallback signal (YahooFinanceFallback for
\* stocks and cedears, CryptoDataFallback for crypto), never in a generic
\* exception.
C2_SoloSenalesDeFallback ==
    \A p \in Procs :
        (Terminado(p) /\ (YahooFallo(p) \/ BinanceFallo(p))) =>
            \/ res[p].kind = "velas"
            \/ EsEquity(req[p].market) /\ res[p].kind = "YahooFinanceFallback"
            \/ EsCrypto(req[p].market) /\ res[p].kind = "CryptoDataFallback"

\* C3: a market whose lower-cased form is outside {crypto, stocks, cedears}
\* ends the call with the market ValueError without any cache operation or
\* provider call; a market in the set, in any casing, is never rejected
\* by that check.
C3_MercadoInvalidoFallaAntes ==
    [][\A p \in Procs :
          IniciadaPor(p) =>
              IF lower(req'[p].market) \in {"crypto", "stocks", "cedears"}
              THEN ~(res'[p].kind = "ValueError" /\ res'[p].detail = "mercado")
              ELSE /\ pc'[p] = "done"
                   /\ res'[p].kind = "ValueError" /\ res'[p].detail = "mercado"
                   /\ req'[p].traza = <<>>
                   /\ lastOp' = {}
                   /\ cache' = cache]_vars
\* A call with an invalid market was rejected while the cache held data.
C3_Witness ==
    \E p \in Procs :
        /\ Terminado(p) /\ req[p].market = "forex"
        /\ res[p].kind = "ValueError"
        /\ DOMAIN cache # {}

\* C4: an equity retrieval that starts with an expired entry for its key
\* and whose provider call fails returns that entry's candles (Stale) and
\* not the Unavailable signal.
C4_StaleTrasFallo ==
    \A p \in Procs :
        (/\ YahooFallo(p)
         /\ req[p].entry0 # None
         /\ req[p].t0 > req[p].entry0[1].expires_at) =>
            /\ res[p].kind = "velas"
            /\ res[p].source = "last_cache"

\* C5: an entry stays in the cache unchanged through every step that is
\* neither a save_to_cache nor a clear_cache; a get_from_cache on an
\* expired entry does not delete it.
C5_EntradaPermanece ==
    [][\A k \in DOMAIN cache :
          (lastOp' \cap {"save_to_cache", "clear_cache"} = {}) =>
              (k \in DOMAIN cache' /\ cache'[k] = cache[k])]_vars

\* C6: an equity retrieval that starts with a fresh entry for its key
\* ends at once with candles of that entry and makes no provider call.
C6_CacheFrescoSinRed ==
    \A p \in Procs :
        (/\ pc[p] # "idle" /\ EsEquity(req[p].market)
         /\ req[p].entry0 # None
         /\ req[p].t0 <= req[p].entry0[1].expires_at) =>
            /\ Terminado(p)
            /\ res[p].kind = "velas" /\ res[p].source = "cache"
            /\ Range(res[p].velas) \subseteq Range(req[p].entry0[1].data)
            /\ req[p].prov = None
            /\ "yahoo" \notin Range(req[p].traza)
\* A fresh entry written earlier served a later retrieval.
C6_Witness ==
    \E p \in Procs :
        /\ Terminado(p) /\ res[p].source = "cache" /\ res[p].velas # <<>>
        /\ req[p].entry0 # None
        /\ req[p].t0 > req[p].entry0[1].timestamp

\* C7: when Yahoo answers a retrieval with usable candles, the step that
\* ends the retrieval returns candles, leaves them in the cache under the
\* key of (market, symbol, timeframe), and get_from_cache for that key
\* right after returns exactly the list returned.
C7_ExitoEscribeCache ==
    [][\A p \in Procs :
          (/\ pc[p] = "await_yahoo" /\ pc'[p] = "done"
           /\ YahooExito(req'[p].prov[1], req[p].limite)) =>
              LET q == req[p]
                  key == <<lower(q.market), upper(q.symbol), lower(q.timeframe)>>
              IN  /\ res'[p].kind = "velas" /\ res'[p].velas # <<>>
                  /\ key \in DOMAIN cache'
                  /\ cache'[key].data = res'[p].velas
                  /\ get_from_cache(cache', now', q.market, q.symbol, q.timeframe).ret
                         = Some(res'[p].velas)]_vars
\* A retrieval has just stored the candles it fetched.
C7_Witness ==
    \E p \in Procs :
        /\ Terminado(p) /\ res[p].source = "provider"
        /\ lastOp = {"save_to_cache"}
        /\ req[p].timeframe = "1M"

\* C8: an equity retrieval whose provider call fails while the cache has
\* no entry for the key ends in YahooFinanceFallback, and the response
\* built from it has no reference price, zero candles and status
\* DATA_TEMPORARILY_UNAVAILABLE.
C8_SinCacheNoDisponible ==
    \A p \in Procs :
        (YahooFallo(p) /\ req[p].entry1 = None) =>
            /\ res[p].kind = "YahooFinanceFallback"
            /\ req[p].via = "api" =>
                   /\ resp[p].http = 200
                   /\ resp[p].precio_referencia = None
                   /\ resp[p].total_velas_analizadas = 0
                   /\ resp[p].status_code = Unavailable
\* An API request for an equity failed with an empty cache.
C8_Witness ==
    \E p \in Procs :
        /\ YahooFallo(p) /\ req[p].entry1 = None /\ req[p].via = "api"
        /\ req[p].prov[1].status = "http_error"
        /\ resp[p].status_code = Unavailable

\* C9: a crypto retrieval that ends with Binance's candles leaves exactly
\* those candles in the cache under (crypto, symbol, timeframe).
C9_CryptoEscribeCache ==
    \A p \in Procs :
        (/\ Terminado(p) /\ EsCrypto(req[p].market) /\ req[p].prov # None
         /\ BinanceExito(req[p].prov[1])) =>
            LET key == <<"crypto", upper(req[p].symbol), lower(req[p].timeframe)>>
            IN  /\ res[p].kind = "velas"
                /\ key \in DOMAIN cache
                /\ cache[key].data = res[p].velas

\* C10: a crypto request to GET /api/analysis whose provider fails, with no
\* cache entry for the key, is answered with status
\* DATA_TEMPORARILY_UNAVAILABLE, zero candles and no reference price.
C10_CryptoNoDisponible ==
    \A p \in Procs :
        (/\ BinanceFallo(p) /\ req[p].via = "api"
         /\ req[p].entry1 = None) =>
            /\ resp[p].http = 200
            /\ resp[p].status_code = Unavailable
            /\ resp[p].total_velas_analizadas = 0
            /\ resp[p].precio_referencia = None
\* A crypto API request failed at the provider and was answered.
C10_Witness ==
    \E p \in Procs :
        /\ BinanceFallo(p) /\ req[p].via = "api" /\ req[p].entry1 = None
        /\ req[p].prov[1].status = "http_error"
        /\ resp[p].total_velas_analizadas = 0

\* The last close of a candle list.
UltimoClose(velas) == velas[Len(velas)].close

\* C11: a crypto request to GET /api/analysis whose provider fails while
\* the cache holds an entry (fresh or expired) for (crypto, symbol,
\* timeframe) is answered Unavailable with a reference price equal to the
\* close of the last candle of that entry.
C11_CryptoPrecioReferencia ==
    \A p \in Procs :
        (/\ BinanceFallo(p) /\ req[p].via = "api"
         /\ req[p].entry1 # None) =>
            /\ resp[p].status_code = Unavailable
            /\ resp[p].precio_referencia = Some(UltimoClose(req[p].entry1[1].data))

\* The arguments of the call of slot p that its provider cannot serve.
TimeframeNoSoportado(q) ==
    IF EsCrypto(q.market)
    THEN q.timeframe \notin TIMEFRAMES_PERMITIDOS
    ELSE q.timeframe \notin DOMAIN timeframe_mapping
LimiteFueraDeRango(q) == q.limite < 1 \/ q.limite > BINANCE_LIMITE_MAX

\* C12: a call with a valid market and a timeframe its provider does not
\* support, or a limit outside 1..1000, ends in the validation failure
\* (ValueError) without a provider call; it never ends in candles or in
\* the Unavailable signal.
C12_EntradaInvalidaRechazada ==
    \A p \in Procs :
        (/\ pc[p] # "idle" /\ mercado_valido(req[p].market)
         /\ (TimeframeNoSoportado(req[p]) \/ LimiteFueraDeRango(req[p]))) =>
            /\ Terminado(p)
            /\ res[p].kind = "ValueError"
            /\ req[p].prov = None

\* C13: a response built from an expired cache entry after a provider
\* failure carries the degraded label: its status tag is set and it gives
\* a reference price, so it differs from a response built from fresh data.
C13_StaleEtiquetado ==
    [][\A p \in ProcsConc :
          LET q == req[p]
              e == EntryAt(cache, q.market, q.symbol, q.timeframe)
          IN  (/\ pc[p] = "await_yahoo" /\ pc'[p] = "done" /\ q.via = "api"
               /\ res'[p].kind = "velas" /\ res'[p].source = "last_cache"
               /\ e # None /\ now > e[1].expires_at) =>
                  /\ resp'[p].status_code # None
                  /\ resp'[p].precio_referencia # None]_vars

\* The step is a direct call of the cache function name.
PasoDe(name) == op'.n = op.n + 1 /\ op'.name = name

\* C14: get_from_cache right after save_to_cache of the same key (time may
\* pass in between, nothing else happens) returns exactly the candles
\* written while now <= expires_at of the entry, and None after that.
C14_IdaYVuelta ==
    [][(/\ op.name = "save_to_cache" /\ PasoDe("get_from_cache")
        /\ op'.market = op.market /\ op'.symbol = op.symbol
        /\ op'.timeframe = op.timeframe) =>
           LET e == EntryAt(cache, op.market, op.symbol, op.timeframe) IN
           /\ e # None
           /\ op'.ret = IF now <= e[1].expires_at THEN Some(op.data) ELSE None]_vars
\* A read at the very instant of expiry returned the candles written.
C14_Witness ==
    LET e == EntryAt(cache, op.market, op.symbol, op.timeframe) IN
    /\ op.name = "get_from_cache" /\ op.n = 2
    /\ e # None /\ now = e[1].expires_at /\ now > e[1].timestamp
    /\ op.ret = Some(e[1].data)

\* Two argument triples that are equal after lower-casing market and
\* timeframe and upper-casing symbol.
MismaClave(m1, s1, t1, m2, s2, t2) ==
    lower(m1) = lower(m2) /\ upper(s1) = upper(s2) /\ lower(t1) = lower(t2)
\* The casing variants of an optional clear_cache argument.
VariantesFiltro(f, S) ==
    IF f = None THEN {None}
    ELSE {f} \cup {Some(x) : x \in {y \in S : lower(y) = lower(f[1])}}

\* C15: every direct call of get_from_cache, get_last_cache, save_to_cache
\* or clear_cache has the result and the effect on the cache that the same
\* call has with any casing variant of its market, symbol and timeframe.
C15_VariantesMismaEntrada ==
    [][LET variantes ==
               {m \in MarketsCache : lower(m) = lower(op'.market)}
                   \X {s \in SymbolsCache : upper(s) = upper(op'.symbol)}
                   \X {t \in TimeframesCache : lower(t) = lower(op'.timeframe)}
       IN  /\ PasoDe("save_to_cache") =>
                  \A v \in variantes :
                      cache' = save_to_cache(cache, now, v[1], v[2], v[3], op'.data)
           /\ PasoDe("get_from_cache") =>
                  \A v \in variantes :
                      get_from_cache(cache, now, v[1], v[2], v[3])
                          = [ret |-> op'.ret, cache |-> cache']
           /\ PasoDe("get_last_cache") =>
                  \A v \in variantes :
                      get_last_cache(cache, v[1], v[2], v[3]) = op'.ret
           /\ PasoDe("clear_cache") =>
                  \A m \in VariantesFiltro(op'.filtro[1], MarketsCache),
                     s \in VariantesFiltro(op'.filtro[2], SymbolsCache),
                     t \in VariantesFiltro(op'.filtro[3], TimeframesCache) :
                      clear_cache(cache, m, s, t) = [ret |-> op'.ret[1], cache |-> cache']]_vars
\* A read whose arguments are not in the key's casing found an entry.
C15_Witness ==
    /\ op.name = "get_from_cache" /\ op.ret # None
    /\ op.market = "Stocks" /\ op.symbol = "aapl" /\ op.timeframe = "1D"

\* The time to live an entry was stored with.
TTLDe(e) == e.expires_at - e.timestamp

\* C17: entries of the daily timeframe live 1800 s, entries of the hourly
\* timeframe 600 s, and entries of every other timeframe the default
\* 300 s, the shortest.
C17_TTLOriginal ==
    \A k \in DOMAIN cache :
        /\ k[3] = "1d" => TTLDe(cache[k]) = 1800
        /\ k[3] = "1h" => TTLDe(cache[k]) = 600
        /\ k[3] \notin {"1d", "1h"} => TTLDe(cache[k]) = DEFAULT_CACHE_DURATION_SECONDS

\* C18: clear_cache removes exactly the entries whose key matches every
\* argument supplied (lower-cased market and timeframe, upper-cased
\* symbol), leaves the other entries as they were and returns the number
\* removed; without arguments it removes every entry.
C18_ClearExacto ==
    [][PasoDe("clear_cache") =>
          LET f == op'.filtro
              coincide(k) ==
                  /\ f[1] # None => k[1] = lower(f[1][1])
                  /\ f[2] # None => k[2] = upper(f[2][1])
                  /\ f[3] # None => k[3] = lower(f[3][1])
              quitadas == {k \in DOMAIN cache : coincide(k)}
          IN  /\ DOMAIN cache' = (DOMAIN cache) \ quitadas
              /\ \A k \in DOMAIN cache' : cache'[k] = cache[k]
              /\ op'.ret = Some(Cardinality(quitadas))
              /\ op'.ret = Some(Cardinality(DOMAIN cache) - Cardinality(DOMAIN cache'))]_vars

\* C16: a call of obtener_velas goes the way the same call goes with any
\* casing variant of its market, symbol and timeframe: it waits for the
\* same provider or ends at once in the same kind of outcome with the
\* same candles.
C16_VariantesMismoResultado ==
    [][\A p \in Procs :
          IniciadaPor(p) =>
              \A m \in Markets, s \in Symbols, t \in Timeframes :
                  MismaClave(m, s, t, req'[p].market, req'[p].symbol, req'[p].timeframe) =>
                      LET o == obtener_velas_inicio(cache, now, m, s, t, req'[p].limite)
                      IN  /\ o.etapa = pc'[p]
                          /\ o.etapa = "done" =>
                                 /\ o.result.kind = res'[p].kind
                                 /\ o.result.velas = res'[p].velas]_vars

\* high >= max(open, close, low) and low <= min(open, close, high)
VelaConsistente(v) ==
    /\ v.high >= v.open /\ v.high >= v.close /\ v.high >= v.low
    /\ v.low <= v.open /\ v.low <= v.close /\ v.low <= v.high

\* C19: every candle a retrieval returns and every candle in the cache
\* has its high at or above, and its low at or below, its other prices.
C19_VelasConsistentes ==
    /\ \A p \in Procs :
          res[p].kind = "velas" =>
              \A i \in 1..Len(res[p].velas) : VelaConsistente(res[p].velas[i])
    /\ \A k \in DOMAIN cache :
          \A i \in 1..Len(cache[k].data) : VelaConsistente(cache[k].data[i])

\* C20: a retrieval that ends in a candle list ends in a non-empty one; a
\* provider answer without usable candles makes the retrieval fail.
C20_NuncaListaVacia ==
    \A p \in Procs :
        (Terminado(p) /\ res[p].kind = "velas") => res[p].velas # <<>>

\* C22: save_to_cache(market, symbol, timeframe, data) at time t leaves
\* under the key exactly [data, timestamp = t, expires_at = t + TTL of the
\* timeframe] and no other entry changed; so every entry of the cache has
\* expires_at = timestamp + get_cache_duration(timeframe of its key).
C22_EntradaReemplazada ==
    [][/\ PasoDe("save_to_cache") =>
              LET key == <<lower(op'.market), upper(op'.symbol), lower(op'.timeframe)>>
              IN  /\ DOMAIN cache' = (DOMAIN cache) \cup {key}
                  /\ cache'[key].data = op'.data
                  /\ cache'[key].timestamp = now
                  /\ cache'[key].expires_at = now + get_cache_duration(op'.timeframe)
                  /\ DOMAIN cache'[key] = {"data", "timestamp", "expires_at"}
                  /\ \A k \in (DOMAIN cache) \ {key} : cache'[k] = cache[k]
       /\ \A k \in DOMAIN cache' :
              cache'[k].expires_at = cache'[k].timestamp + get_cache_duration(k[3])]_vars
\* A save made after time has passed, with a timeframe in upper case.
C22_Witness ==
    LET e == EntryAt(cache, op.market, op.symbol, op.timeframe) IN
    /\ op.name = "save_to_cache" /\ op.n = 2 /\ op.timeframe = "1D"
    /\ e # None /\ now > 0 /\ e[1].timestamp = now /\ e[1].expires_at = now + 1800

\* The last limite rows of the provider's arrays, those with none of the
\* fields campos null, each as a candle (a null volume reads 0).
VelasEsperadas(rows, limite, campos) ==
    LET ventana == SubSeq(rows, max(0, Len(rows) - limite) + 1, Len(rows))
        usables == SelectSeq(ventana, LAMBDA r : r.nulls \cap campos = {})
    IN  [i \in 1..Len(usables) |->
            [open |-> usables[i].open, high |-> usables[i].high,
             low |-> usables[i].low, close |-> usables[i].close,
             volume |-> IF "volume" \in usables[i].nulls THEN 0 ELSE usables[i].volume]]
\* The step ends the retrieval of slot p on a Yahoo answer with a quote.
YahooRespondeCon(p) ==
    /\ pc[p] = "await_yahoo" /\ pc'[p] = "done"
    /\ req'[p].prov[1].status = "ok"
    /\ req'[p].prov[1].has_result /\ req'[p].prov[1].has_quote

\* C23 as stated: the candles taken from Yahoo's answer are, in order,
\* the rows of the window whose open, high, low, close and volume are all
\* present.
C23_NulosOriginal ==
    [][\A p \in Procs :
          (YahooRespondeCon(p) /\ res'[p].source = "provider") =>
              res'[p].velas = VelasEsperadas(req'[p].prov[1].rows, req[p].limite,
                                             {"open", "high", "low", "close", "volume"})]_vars

\* C23 amended: the candles taken from Yahoo's answer are, in order, the
\* rows of the window whose open, high, low and close are all present, a
\* null volume being read as 0; when no row of the window qualifies the
\* provider call counts as failed.
C23_NulosSinVolumen ==
    [][\A p \in Procs :
          YahooRespondeCon(p) =>
              LET esperadas == VelasEsperadas(req'[p].prov[1].rows, req[p].limite,
                                              {"open", "high", "low", "close"})
              IN  IF esperadas # <<>>
                  THEN /\ res'[p].kind = "velas" /\ res'[p].source = "provider"
                       /\ res'[p].velas = esperadas
                  ELSE res'[p].source # "provider"]_vars
\* A retrieval returned a candle made from a row with a null volume.
C23_Witness ==
    \E p \in Procs :
        /\ Terminado(p) /\ res[p].source = "provider" /\ Len(res[p].velas) = 2
        /\ \E i \in 1..Len(req[p].prov[1].rows) : "volume" \in req[p].prov[1].rows[i].nulls
        /\ res[p].velas[1].volume = 0

\* The candle lists one provider answer can be stored as.
ListasCompletas ==
    {VelasEsperadas(r.rows, l, {"open", "high", "low", "close"}) :
         r \in YahooResponses, l \in Limits} \ {<<>>}

\* C24: with retrievals interleaved at their provider calls, every cache
\* entry is the complete candle list of one save_to_cache together with
\* that call's times, and a retrieval served from the cache gets candles
\* of one such list (cut to its limit), never a mix of two saves.
C24_SinLecturaRota ==
    /\ \A k \in DOMAIN cache :
          /\ cache[k].data \in ListasCompletas
          /\ cache[k].timestamp <= now
          /\ cache[k].expires_at = cache[k].timestamp + get_cache_duration(k[3])
    /\ \A p \in ProcsConc :
          (Terminado(p) /\ res[p].kind = "velas"
           /\ res[p].source \in {"cache", "last_cache"}) =>
              \E d \in ListasCompletas : res[p].velas = Recortar(d, req[p].limite)
\* Two retrievals of one key fetched different candles and both saved.
C24_Witness ==
    \E p, q \in ProcsConc :
        /\ Terminado(p) /\ Terminado(q)
        /\ res[p].source = "provider" /\ res[q].source = "provider"
        /\ req[p].entry1 = None /\ req[q].entry1 # None
        /\ res[p].velas # res[q].velas
        /\ EntryAt(cache, req[q].market, req[q].symbol, req[q].timeframe) # None

\* The key of the retrieval of slot p.
ClaveDe(q) == <<lower(q.market), upper(q.symbol), lower(q.timeframe)>>

\* C29: with retrievals of one key interleaved, a retrieval that ends on
\* fetched candles leaves exactly its list under the key (so the entry is
\* that of the save made last), no other step changes an entry it keeps,
\* and a retrieval whose provider call fails while the key has an entry
\* stored in the meantime returns that entry's candles.
C29_UltimoGuardadoGana ==
    [][/\ \A p \in ProcsConc :
            (pc[p] = "await_yahoo" /\ pc'[p] = "done") =>
                LET e == EntryAt(cache, req[p].market, req[p].symbol, req[p].timeframe)
                    key == ClaveDe(req[p])
                IN  /\ res'[p].source = "provider" =>
                           /\ key \in DOMAIN cache'
                           /\ cache'[key].data = res'[p].velas
                           /\ cache'[key].timestamp = now
                    /\ (~YahooExito(req'[p].prov[1], req[p].limite) /\ e # None) =>
                           /\ res'[p].kind = "velas"
                           /\ res'[p].velas = Recortar(e[1].data, req[p].limite)
       /\ \A k \in (DOMAIN cache) \cap (DOMAIN cache') :
            cache'[k] # cache[k] =>
                \E p \in ProcsConc :
                    /\ pc[p] = "await_yahoo" /\ pc'[p] = "done"
                    /\ res'[p].source = "provider" /\ ClaveDe(req[p]) = k]_vars
\* A failed retrieval returned the candles another one stored meanwhile.
C29_Witness ==
    \E p, q \in ProcsConc :
        /\ Terminado(p) /\ Terminado(q)
        /\ res[q].source = "provider"
        /\ res[p].source = "last_cache" /\ req[p].entry0 = None
        /\ res[p].velas = res[q].velas

\* C25: an equity retrieval makes its steps in one order and once each:
\* the fresh-cache check; the provider call, only when that check found
\* nothing fresh; then either the save of the fetched candles or, only
\* when the provider call failed, the read of the cache at any age.
C25_OrdenUnSoloIntento ==
    \A p \in Procs :
        (pc[p] # "idle" /\ EsEquity(req[p].market)) =>
            LET tz == req[p].traza
                fresca == /\ req[p].entry0 # None
                          /\ req[p].t0 <= req[p].entry0[1].expires_at
            IN  /\ tz \in { <<"get_from_cache">>,
                            <<"get_from_cache", "yahoo">>,
                            <<"get_from_cache", "yahoo", "save_to_cache">>,
                            <<"get_from_cache", "yahoo", "get_last_cache">> }
                /\ "yahoo" \in Range(tz) => ~fresca
                /\ (pc[p] = "await_yahoo") <=> (tz = <<"get_from_cache", "yahoo">>)
                /\ "get_last_cache" \in Range(tz) => YahooFallo(p)
                /\ "save_to_cache" \in Range(tz) =>
                       (Terminado(p) /\ YahooExito(req[p].prov[1], req[p].limite))
\* A retrieval found an expired entry, called Yahoo, failed and then read
\* the cache at any age.
C25_Witness ==
    \E p \in Procs :
        /\ Terminado(p) /\ req[p].entry0 # None
        /\ req[p].traza = <<"get_from_cache", "yahoo", "get_last_cache">>
        /\ req[p].prov[1].status = "timeout"

\* C28: an equity retrieval whose timeframe is not one Yahoo supports
\* never ends in candles, whatever the cache holds; in particular a '1m'
\* retrieval is not served the candles a '1M' retrieval cached.
C28_TimeframeNoCompartido ==
    \A p \in Procs :
        (/\ Terminado(p) /\ EsEquity(req[p].market)
         /\ req[p].timeframe \notin DOMAIN timeframe_mapping) =>
            res[p].kind # "velas"

\* C30: every cache entry holds at least one candle, so the payload of
\* get_fallback_response_data has a reference price exactly when it
\* reports cache_disponible, for every key.
C30_EntradasNoVacias ==
    /\ \A k \in DOMAIN cache : cache[k].data # <<>>
    /\ \A m \in Markets, s \in Symbols, t \in Timeframes :
          LET fd == get_fallback_response_data(cache, lower(m), upper(s), t)
              last_cache == get_last_cache(cache, lower(m), upper(s), t)
          IN  /\ (fd.precio_referencia # None) <=> fd.cache_disponible
              /\ last_cache # None =>
                     fd.precio_referencia = Some(UltimoClose(last_cache[1]))
\* A retrieval stored its candles and the payload for its key quotes the
\* close of the last of them.
C30_Witness ==
    \E p \in Procs :
        /\ Terminado(p) /\ res[p].source = "provider"
        /\ LET fd == get_fallback_response_data(cache, lower(req[p].market),
                                                upper(req[p].symbol), req[p].timeframe)
           IN  fd.cache_disponible /\ fd.precio_referencia = Some(UltimoClose(res[p].velas))

\* The candles of Yahoo's answer rows when no row has a null price.
SinNulos(rows) ==
    \A i \in 1..Len(rows) : rows[i].nulls \cap {"open", "high", "low", "close"} = {}
\* The last n elements of a sequence longer than n.
Ultimas(velas, n) == SubSeq(velas, Len(velas) - n + 1, Len(velas))

\* C26: an equity retrieval with limit n smaller than the number of
\* candles available returns the n most recent of them, whether they come
\* from the provider, from a fresh cache entry or from the cache after a
\* provider failure.
C26_MasRecientes ==
    \A p \in Procs :
        (Terminado(p) /\ EsEquity(req[p].market) /\ res[p].kind = "velas") =>
            LET n == req[p].limite IN
            /\ (res[p].source = "provider" /\ SinNulos(req[p].prov[1].rows)
                 /\ n < Len(req[p].prov[1].rows)) =>
                    res[p].velas = Ultimas(velas_yahoo(req[p].prov[1].rows,
                                                       Len(req[p].prov[1].rows)), n)
            /\ (res[p].source = "cache" /\ n < Len(req[p].entry0[1].data)) =>
                    res[p].velas = Ultimas(req[p].entry0[1].data, n)
            /\ (res[p].source = "last_cache" /\ n < Len(req[p].entry1[1].data)) =>
                    res[p].velas = Ultimas(req[p].entry1[1].data, n)

\* C27: a retrieval that follows, within the TTL, a retrieval of the same
\* key that fetched from Yahoo returns the candles Yahoo's unchanged
\* answer gives for its own limit, whatever the limit of the first was.
C27_LimiteIndependiente ==
    [][\A p \in Procs :
          LET e == EntryAt(cache, req[p].market, req[p].symbol, req[p].timeframe) IN
          (/\ IniciadaPor(p) /\ Terminado(p)
           /\ res[p].kind = "velas" /\ res[p].source = "provider"
           /\ ClaveDe(req'[p]) = ClaveDe(req[p])
           /\ req'[p].timeframe \in DOMAIN timeframe_mapping
           /\ YahooExito(req[p].prov[1], req'[p].limite)
           /\ e # None /\ now <= e[1].expires_at) =>
              /\ res'[p].kind = "velas"
              /\ res'[p].velas = velas_yahoo(req[p].prov[1].rows, req'[p].limite)]_vars

\* C21: a change a caller makes to a list it passed to save_to_cache, or
\* to a list get_from_cache or get_last_cache returned, never changes the
\* candles that reads of any key return afterwards.
C21_LecturasIndependientes ==
    [][PasoDe("mutar") =>
          \A timeframe \in TimeframesLista :
              /\ Contenido(heap', get_last_cache(cache', "stocks", "aapl", timeframe))
                   = Contenido(heap, get_last_cache(cache, "stocks", "aapl", timeframe))
              /\ Contenido(heap', get_from_cache(cache', now', "stocks", "aapl", timeframe).ret)
                   = Contenido(heap, get_from_cache(cache, now, "stocks", "aapl", timeframe).ret)]_vars

====
